---- MODULE Spec2Model ----
(***************************************************************************)
(* Model of the prediction request pipeline of                             *)
(* app/api/v1/endpoints/prediction.py: the one-time artifact load at       *)
(* module import, and the predict_failure handler taken stage by stage     *)
(* (readiness check, feature assembly, model invocation, classification,   *)
(* response).                                                              *)
(*                                                                         *)
(* Probabilities are integers in units of 10^-6 (Scale), the values of a   *)
(* sensor reading are opaque tokens (they are only passed through).        *)
(* Python's None is the record [tag |-> "None"].                           *)
(***************************************************************************)
EXTENDS Integers, Sequences, FiniteSets, TLC

VARIABLES loaded, model, FEATURE_COLS, req

vars == <<loaded, model, FEATURE_COLS, req>>

(* ------------------------------ bounds --------------------------------- *)

\* number of request slots that may be in flight at the same time
NumRequests == 2

\* half-width of the window of raw probabilities explored around each
\* threshold by the classifier-stage specification (units of 10^-6)
MaxDelta == 60

Requests == 1..NumRequests

(* ------------------------------ values --------------------------------- *)

Scale == 10^6

None == [tag |-> "None"]

\* a feature_cols list as loaded from feature_info.json
ListOf(s) == [tag |-> "list", items |-> s]

CanonicalCols ==
    <<"Type", "Air temperature [K]", "Process temperature [K]",
      "Rotational speed [rpm]", "Torque [Nm]", "Tool wear [min]">>

\* the contents feature_info.json may have: the documented order, another
\* order, fewer columns, a column the backend does not build, no columns
SchemaFiles ==
    { ListOf(CanonicalCols),
      ListOf(<<"Tool wear [min]", "Torque [Nm]", "Type",
               "Rotational speed [rpm]", "Air temperature [K]",
               "Process temperature [K]">>),
      ListOf(<<"Torque [Nm]", "Air temperature [K]">>),
      ListOf(<<"Type", "Air temperature [K]", "Vibration [mm/s]">>),
      ListOf(<< >>) }

\* the objects the .pkl may unpickle to, by the capabilities the handler
\* looks at: hasattr predict_proba, hasattr classes_, list(classes_)
Estimator(pp, hc, cl) ==
    [tag |-> "model", predict_proba |-> pp, has_classes_ |-> hc, classes_ |-> cl]

ModelFiles ==
    { Estimator(FALSE, FALSE, << >>),
      Estimator(FALSE, TRUE, <<0, 1>>),
      Estimator(TRUE, TRUE, <<0, 1>>),
      Estimator(TRUE, TRUE, <<1, 0>>),
      Estimator(TRUE, TRUE, <<0, 2>>),
      Estimator(TRUE, FALSE, << >>) }

\* request payloads (PredictionInputSchema)
Readings ==
    { [air_temperature |-> "300.1", process_temperature |-> "310.2",
       rotational_speed |-> "1500", torque |-> "40.5", tool_wear |-> "10"],
      [air_temperature |-> "298.0", process_temperature |-> "308.5",
       rotational_speed |-> "2861", torque |-> "4.6", tool_wear |-> "143"] }

\* rows model.predict_proba(df)[0] may return
ProbaRows ==
    { <<876544, 123456>>, <<700040, 299960>>, <<700000, 300000>>,
      <<300040, 699960>>, <<300000, 700000>>, <<250000, 200000>>,
      <<500000>> }

\* labels model.predict(df)[0] may return
Labels == {0, 1, 2}

(* ------------------------- pure helpers -------------------------------- *)

\* truthiness of FEATURE_COLS: None and the empty list are falsy
Truthy(cols) == cols.tag = "list" /\ Len(cols.items) > 0


\* faulty variant: readiness that looks at the model only
IsReadyModelOnly == model.tag # "None"

\* the condition of line 120, negated
IsReady == model.tag # "None" /\ Truthy(FEATURE_COLS)

\* the name -> value mapping of lines 142-149
fitur_dict(data) ==
    ("Type" :> "M") @@
    ("Air temperature [K]" :> data.air_temperature) @@
    ("Process temperature [K]" :> data.process_temperature) @@
    ("Rotational speed [rpm]" :> data.rotational_speed) @@
    ("Torque [Nm]" :> data.torque) @@
    ("Tool wear [min]" :> data.tool_wear)


\* faulty variant: the row in the order the mapping was built, not reordered by name
SelectColumnsPositional(mapping, cols) ==
    IF cols.tag = "list" /\ \A i \in 1..Len(cols.items) : cols.items[i] \in DOMAIN mapping
    THEN [tag |-> "df", row |-> [i \in 1..Len(cols.items) |-> mapping[CanonicalCols[i]]]]
    ELSE None

\* faulty variant: reindex instead of selection, a missing column is filled with NaN
SelectColumnsReindex(mapping, cols) ==
    IF cols.tag = "list"
    THEN [tag |-> "df",
          row |-> [i \in 1..Len(cols.items) |->
                     IF cols.items[i] \in DOMAIN mapping THEN mapping[cols.items[i]] ELSE "NaN"]]
    ELSE None

\* faulty variant: selection that also rejects a mapping with columns left over
SelectColumnsStrict(mapping, cols) ==
    IF cols.tag = "list" /\ {cols.items[i] : i \in 1..Len(cols.items)} = DOMAIN mapping
    THEN [tag |-> "df", row |-> [i \in 1..Len(cols.items) |-> mapping[cols.items[i]]]]
    ELSE None

\* pd.DataFrame([mapping])[cols] of line 156: the single row restricted to
\* and ordered by cols; a KeyError (here None) when cols is None or names a
\* column the frame does not have.  Columns the list leaves out are dropped.
SelectColumns(mapping, cols) ==
    IF cols.tag = "list" /\ \A i \in 1..Len(cols.items) : cols.items[i] \in DOMAIN mapping
    THEN [tag |-> "df", row |-> [i \in 1..Len(cols.items) |-> mapping[cols.items[i]]]]
    ELSE None

\* list.index(x): position of the first occurrence (x is known to occur)
RECURSIVE index(_, _)
index(s, x) == IF Head(s) = x THEN 1 ELSE 1 + index(Tail(s), x)

\* x in list
Contains(s, x) == \E i \in 1..Len(s) : s[i] = x

\* max(proba) of a non-empty row
RECURSIVE max(_)
max(s) ==
    IF Len(s) = 1 THEN Head(s)
    ELSE LET m == max(Tail(s)) IN IF Head(s) >= m THEN Head(s) ELSE m


\* faulty variant: the largest entry of the row whatever classes_ says
FailureProbabilityMax(m, proba) == max(proba)

\* lines 173-182: the failure probability taken from a predict_proba row;
\* -1 stands for the IndexError of proba[failure_idx] on a row too short
FailureProbability(m, proba) ==
    IF m.has_classes_
    THEN IF Contains(m.classes_, 1)
         THEN LET failure_idx == index(m.classes_, 1)
              IN IF failure_idx <= Len(proba) THEN proba[failure_idx] ELSE -1
         ELSE max(proba)
    ELSE max(proba)


\* faulty variant: every label other than 0 counts as failure
PseudoProbabilityNonzero(pred) == IF pred # 0 THEN 9 * (Scale \div 10) ELSE Scale \div 10

\* line 186: pseudo probability of a label-only model
PseudoProbability(pred) == IF pred = 1 THEN 9 * (Scale \div 10) ELSE Scale \div 10


\* faulty variant: the lower threshold compared with <=
interpret_probability_closed(prob_failure) ==
    IF prob_failure <= 3 * (Scale \div 10)
    THEN [status |-> "Normal", pesan |-> "Mesin dalam kondisi normal."]
    ELSE IF prob_failure < 7 * (Scale \div 10)
    THEN [status |-> "Warning", pesan |-> "Waspada."]
    ELSE [status |-> "Failure", pesan |-> "Risiko kegagalan mesin tinggi."]

\* lines 215-240
interpret_probability(prob_failure) ==
    IF prob_failure < 3 * (Scale \div 10)
    THEN [status |-> "Normal", pesan |-> "Mesin dalam kondisi normal."]
    ELSE IF prob_failure < 7 * (Scale \div 10)
    THEN [status |-> "Warning", pesan |-> "Waspada."]
    ELSE [status |-> "Failure", pesan |-> "Risiko kegagalan mesin tinggi."]

\* round(prob_failure, 4) of line 205, for a value given in units of 10^-6:
\* the set of results the double nearest to that decimal can round to.  A
\* value exactly half way between two 4-decimal neighbours on the decimal
\* grid is, as a double, slightly above or below the half: either neighbour.
Round4(p) ==
    LET q == p \div 100
        r == p % 100
    IN  IF r < 50 THEN {q * 100}
        ELSE IF r > 50 THEN {(q + 1) * 100}
        ELSE {q * 100, (q + 1) * 100}

(* ------------------------- request records ----------------------------- *)

NoResult == [kind |-> "none"]

HTTP500(which) == [kind |-> "error", status_code |-> 500, detail |-> which]

IdleRequest ==
    [pc |-> "idle", data |-> None, df |-> None, proba |-> << >>, pred |-> -1,
     prob_failure |-> -1, status |-> "", pesan |-> "", result |-> NoResult,
     log |-> << >>]

(* ------------------------------ actions -------------------------------- *)

Init ==
    /\ loaded = FALSE
    /\ model = None
    /\ FEATURE_COLS = None
    /\ req = [r \in Requests |-> IdleRequest]

\* _load_model_and_features, run once by the import of the module
Load ==
    /\ ~loaded
    /\ loaded' = TRUE
    /\ \E schema \in SchemaFiles \cup {None} :
           \* None: open/json.load/.get raised; ListOf(<<>>): key missing or empty
           FEATURE_COLS' = schema
    /\ \E joblibResult \in ModelFiles \cup {None}, pickleResult \in ModelFiles \cup {None} :
           \* None: the loader raised
           model' = IF joblibResult.tag # "None" THEN joblibResult ELSE pickleResult
    /\ UNCHANGED req

\* the router hands a validated payload to predict_failure
Receive(r) ==
    /\ loaded
    /\ req[r].pc = "idle"
    /\ \E data \in Readings :
           req' = [req EXCEPT ![r] = [IdleRequest EXCEPT !.pc = "check", !.data = data]]
    /\ UNCHANGED <<loaded, model, FEATURE_COLS>>


\* faulty variant: an unready handler tries the load again before it decides
CheckReadyReload(r) ==
    /\ req[r].pc = "check"
    /\ IF IsReady
       THEN /\ req' = [req EXCEPT ![r] = [@ EXCEPT !.pc = "assemble", !.log = Append(@, "check")]]
            /\ UNCHANGED <<model, FEATURE_COLS>>
       ELSE /\ \E schema \in SchemaFiles \cup {None} : FEATURE_COLS' = schema
            /\ \E m \in ModelFiles \cup {None} : model' = m
            /\ req' = [req EXCEPT ![r] =
                         IF model'.tag = "None" \/ ~Truthy(FEATURE_COLS')
                         THEN [@ EXCEPT !.pc = "done", !.log = Append(@, "check"),
                                        !.result = HTTP500("ArtifactUnready")]
                         ELSE [@ EXCEPT !.pc = "assemble", !.log = Append(@, "check")]]
    /\ UNCHANGED loaded

\* lines 119-128
CheckReady(r) ==
    /\ req[r].pc = "check"
    /\ req' = [req EXCEPT ![r] =
                 IF ~IsReady
                 THEN [@ EXCEPT !.pc = "done", !.log = Append(@, "check"),
                                !.result = HTTP500("ArtifactUnready")]
                 ELSE [@ EXCEPT !.pc = "assemble", !.log = Append(@, "check")]]
    /\ UNCHANGED <<loaded, model, FEATURE_COLS>>

\* lines 140-162
AssembleFeatures(r) ==
    /\ req[r].pc = "assemble"
    /\ LET df == SelectColumns(fitur_dict(req[r].data), FEATURE_COLS)
       IN req' = [req EXCEPT ![r] =
                    IF df.tag = "None"
                    THEN [@ EXCEPT !.pc = "done", !.log = Append(@, "assemble"),
                                   !.result = HTTP500("FeatureMismatch")]
                    ELSE [@ EXCEPT !.pc = "invoke", !.log = Append(@, "assemble"),
                                   !.df = df]]
    /\ UNCHANGED <<loaded, model, FEATURE_COLS>>


\* faulty variant: a failed call of predict_proba is tried again
InvokeProbaRetry(r) ==
    /\ req[r].pc = "invoke"
    /\ model.predict_proba
    /\ \E raises \in BOOLEAN, row \in ProbaRows :
         LET p == IF raises THEN -1 ELSE FailureProbability(model, row)
         IN req' = [req EXCEPT ![r] =
                      IF p = -1
                      THEN [@ EXCEPT !.log = Append(@, "predict_proba")]
                      ELSE [@ EXCEPT !.pc = "classify", !.log = Append(@, "predict_proba"),
                                     !.proba = row, !.prob_failure = p]]
    /\ UNCHANGED <<loaded, model, FEATURE_COLS>>

\* lines 167-193, probability-capable branch
InvokeProba(r) ==
    /\ req[r].pc = "invoke"
    /\ model.predict_proba
    /\ \E raises \in BOOLEAN, row \in ProbaRows :
         LET p == IF raises THEN -1 ELSE FailureProbability(model, row)
         IN req' = [req EXCEPT ![r] =
                      IF p = -1
                      THEN [@ EXCEPT !.pc = "done", !.log = Append(@, "predict_proba"),
                                     !.result = HTTP500("InferenceError")]
                      ELSE [@ EXCEPT !.pc = "classify", !.log = Append(@, "predict_proba"),
                                     !.proba = row, !.prob_failure = p]]
    /\ UNCHANGED <<loaded, model, FEATURE_COLS>>

\* lines 183-193, label-only branch
InvokePredict(r) ==
    /\ req[r].pc = "invoke"
    /\ ~model.predict_proba
    /\ \E raises \in BOOLEAN, label \in Labels :
         req' = [req EXCEPT ![r] =
                   IF raises
                   THEN [@ EXCEPT !.pc = "done", !.log = Append(@, "predict"),
                                  !.result = HTTP500("InferenceError")]
                   ELSE [@ EXCEPT !.pc = "classify", !.log = Append(@, "predict"),
                                  !.pred = label,
                                  !.prob_failure = PseudoProbability(label)]]
    /\ UNCHANGED <<loaded, model, FEATURE_COLS>>


\* faulty variant: the status is taken from the rounded probability
ClassifyRounded(r) ==
    /\ req[r].pc = "classify"
    /\ \E rounded \in Round4(req[r].prob_failure) :
         LET i == interpret_probability(rounded)
         IN req' = [req EXCEPT ![r] =
                      [@ EXCEPT !.pc = "respond", !.log = Append(@, "classify"),
                                !.status = i.status, !.pesan = i.pesan]]
    /\ UNCHANGED <<loaded, model, FEATURE_COLS>>

\* line 198
Classify(r) ==
    /\ req[r].pc = "classify"
    /\ LET i == interpret_probability(req[r].prob_failure)
       IN req' = [req EXCEPT ![r] =
                    [@ EXCEPT !.pc = "respond", !.log = Append(@, "classify"),
                              !.status = i.status, !.pesan = i.pesan]]
    /\ UNCHANGED <<loaded, model, FEATURE_COLS>>

\* lines 203-207
Respond(r) ==
    /\ req[r].pc = "respond"
    /\ \E rounded \in Round4(req[r].prob_failure) :
         req' = [req EXCEPT ![r] =
                   [@ EXCEPT !.pc = "done", !.log = Append(@, "respond"),
                             !.result = [kind |-> "ok",
                                         machine_status |-> req[r].status,
                                         probability |-> rounded,
                                         message |-> req[r].pesan]]]
    /\ UNCHANGED <<loaded, model, FEATURE_COLS>>

\* the response has been sent; the slot serves the next request
Finish(r) ==
    /\ req[r].pc = "done"
    /\ req' = [req EXCEPT ![r] = IdleRequest]
    /\ UNCHANGED <<loaded, model, FEATURE_COLS>>

Next ==
    \/ Load
    \/ \E r \in Requests : Receive(r)
    \/ \E r \in Requests : CheckReady(r)
    \/ \E r \in Requests : AssembleFeatures(r)
    \/ \E r \in Requests : InvokeProba(r)
    \/ \E r \in Requests : InvokePredict(r)
    \/ \E r \in Requests : Classify(r)
    \/ \E r \in Requests : Respond(r)
    \/ \E r \in Requests : Finish(r)

Spec == Init /\ [][Next]_vars

(* ------------- the classification and response stages alone ------------ *)

\* raw failure probabilities around the two thresholds and around the
\* value 0.123456, and the two ends of [0, 1]
ProbWindow ==
    {0, Scale} \cup
    UNION { (c - MaxDelta)..(c + MaxDelta) : c \in {123456, 3 * (Scale \div 10), 7 * (Scale \div 10)} }

\* a request that has come back from predict_proba with failure probability p
InvokedRequest(p) ==
    LET data == CHOOSE d \in Readings : d.tool_wear = "10"
    IN [IdleRequest EXCEPT
          !.pc = "classify", !.data = data,
          !.df = SelectColumns(fitur_dict(data), ListOf(CanonicalCols)),
          !.proba = <<Scale - p, p>>, !.prob_failure = p,
          !.log = <<"check", "assemble", "predict_proba">>]

InitClassify ==
    /\ loaded = TRUE
    /\ model = Estimator(TRUE, TRUE, <<0, 1>>)
    /\ FEATURE_COLS = ListOf(CanonicalCols)
    /\ \E p \in ProbWindow :
           req = [r \in Requests |-> IF r = 1 THEN InvokedRequest(p) ELSE IdleRequest]

NextClassify ==
    \/ \E r \in Requests : Classify(r)
    \/ \E r \in Requests : Respond(r)

SpecClassify == InitClassify /\ [][NextClassify]_vars

(* ------------------------------ claims --------------------------------- *)

Has(s, x) == \E i \in 1..Len(s) : s[i] = x

IsPrefix(s, t) == Len(s) <= Len(t) /\ \A i \in 1..Len(s) : s[i] = t[i]

\* the keys the handler gives the name -> value mapping
MappingKeys ==
    {"Type", "Air temperature [K]", "Process temperature [K]",
     "Rotational speed [rpm]", "Torque [Nm]", "Tool wear [min]"}

SchemaNames == {FEATURE_COLS.items[i] : i \in 1..Len(FEATURE_COLS.items)}

\* the threshold table of the Status Classifier
ThresholdTable(p) ==
    CASE p < 300000 -> "Normal"
      [] p >= 300000 /\ p < 700000 -> "Warning"
      [] p >= 700000 -> "Failure"

\* the value the reading gives a feature name
ExpectedValue(name, data) ==
    CASE name = "Type" -> "M"
      [] name = "Air temperature [K]" -> data.air_temperature
      [] name = "Process temperature [K]" -> data.process_temperature
      [] name = "Rotational speed [rpm]" -> data.rotational_speed
      [] name = "Torque [Nm]" -> data.torque
      [] name = "Tool wear [min]" -> data.tool_wear
      [] OTHER -> "no such key"

Unready ==
    \/ model = None
    \/ FEATURE_COLS = None
    \/ FEATURE_COLS = ListOf(<< >>)

\* C1: once the load has run, if the model is absent or the schema is absent
\* or empty, a request never gets past the readiness check: it runs neither
\* feature assembly nor the model, and it ends with ArtifactUnready (500).
UnreadyRejection ==
    \A r \in Requests :
        (loaded /\ Unready) =>
            /\ req[r].pc \in {"idle", "check", "done"}
            /\ IsPrefix(req[r].log, <<"check">>)
            /\ req[r].df = None /\ req[r].proba = << >> /\ req[r].pred = -1
            /\ req[r].pc = "done" =>
                   /\ req[r].result.kind = "error"
                   /\ req[r].result.status_code = 500
                   /\ req[r].result.detail = "ArtifactUnready"

\* a request rejected because the schema is empty although the model loaded
UnreadyRejectionWitness ==
    \E r \in Requests :
        /\ model # None /\ FEATURE_COLS = ListOf(<< >>)
        /\ req[r].pc = "done" /\ req[r].result.detail = "ArtifactUnready"

\* C2: the status given to a failure probability p is Normal iff p < 0.30,
\* Warning iff 0.30 <= p < 0.70, Failure iff p >= 0.70; exactly one of them.
ThresholdClassification ==
    \A r \in Requests :
        req[r].status # "" =>
            LET p == req[r].prob_failure
                st == req[r].status
            IN /\ st \in {"Normal", "Warning", "Failure"}
               /\ (st = "Normal") <=> (p < 300000)
               /\ (st = "Warning") <=> (300000 <= p /\ p < 700000)
               /\ (st = "Failure") <=> (p >= 700000)

\* a probability of exactly 0.3 has been classified as Warning
ThresholdClassificationWitness ==
    \E r \in Requests : req[r].prob_failure = 300000 /\ req[r].status = "Warning"

\* C3: the stages of a request run in the order check, assemble, invoke,
\* classify, respond, each at most once; a request that has ended has either
\* run all five and holds a complete result, or stopped at the failing stage
\* with that stage's error; before the end there is no result at all.
StageOrdering ==
    \A r \in Requests :
        LET q == req[r]
        IN /\ \/ IsPrefix(q.log, <<"check", "assemble", "predict_proba", "classify", "respond">>)
              \/ IsPrefix(q.log, <<"check", "assemble", "predict", "classify", "respond">>)
           /\ q.pc # "done" => q.result = NoResult
           /\ q.pc = "done" =>
                \/ /\ q.result.kind = "ok"
                   /\ Len(q.log) = 5
                   /\ q.result.machine_status \in {"Normal", "Warning", "Failure"}
                   /\ q.result.probability \in 0..Scale
                   /\ q.result.message # ""
                \/ /\ q.result.kind = "error"
                   /\ q.result.status_code = 500
                   /\ \/ q.log = <<"check">> /\ q.result.detail = "ArtifactUnready"
                      \/ q.log = <<"check", "assemble">> /\ q.result.detail = "FeatureMismatch"
                      \/ /\ Len(q.log) = 3
                         /\ q.log[3] \in {"predict_proba", "predict"}
                         /\ q.result.detail = "InferenceError"

\* a request that ended at the model call with InferenceError
StageOrderingWitness ==
    \E r \in Requests :
        /\ req[r].pc = "done" /\ req[r].result.detail = "InferenceError"
        /\ Len(req[r].log) = 3

\* C4: an assembled feature vector has the length of the schema and holds at
\* position i the reading's value for the i-th schema name ("M" for Type).
ColumnOrdering ==
    \A r \in Requests :
        req[r].df.tag = "df" =>
            /\ Len(req[r].df.row) = Len(FEATURE_COLS.items)
            /\ \A i \in 1..Len(FEATURE_COLS.items) :
                   req[r].df.row[i] = ExpectedValue(FEATURE_COLS.items[i], req[r].data)
            /\ (FEATURE_COLS.items = CanonicalCols /\ req[r].data.air_temperature = "300.1")
                   => req[r].df.row = <<"M", "300.1", "310.2", "1500", "40.5", "10">>

\* a vector assembled for a schema that starts with the tool wear
ColumnOrderingWitness ==
    \E r \in Requests :
        /\ req[r].df.tag = "df"
        /\ Len(req[r].df.row) = 6
        /\ FEATURE_COLS.items[1] = "Tool wear [min]"
        /\ req[r].df.row[1] = req[r].data.tool_wear

\* C5: when the system is ready and the schema lists a name the mapping does
\* not have, a request that reaches assembly ends with FeatureMismatch (500)
\* and never calls the model.
SchemaMismatch ==
    \A r \in Requests :
        (loaded /\ ~Unready /\ ~(SchemaNames \subseteq MappingKeys)) =>
            /\ req[r].pc \in {"idle", "check", "assemble", "done"}
            /\ ~Has(req[r].log, "predict_proba") /\ ~Has(req[r].log, "predict")
            /\ req[r].pc = "done" =>
                   /\ req[r].result.kind = "error"
                   /\ req[r].result.status_code = 500
                   /\ req[r].result.detail = "FeatureMismatch"

\* a request that ended with FeatureMismatch
SchemaMismatchWitness ==
    \E r \in Requests :
        /\ ~Unready /\ "Vibration [mm/s]" \in SchemaNames
        /\ req[r].pc = "done" /\ req[r].result.detail = "FeatureMismatch"

\* C6: with a model that has no predict_proba, a successful response has
\* probability 0.9 and status Failure when the predicted label is 1, and
\* probability 0.1 and status Normal for any other label.
LabelOnlyFallback ==
    \A r \in Requests :
        (model.tag = "model" /\ ~model.predict_proba) =>
            /\ req[r].prob_failure \in {-1, 100000, 900000}
            /\ req[r].result.kind = "ok" =>
                 \/ /\ req[r].pred = 1
                    /\ req[r].result.probability = 900000
                    /\ req[r].result.machine_status = "Failure"
                 \/ /\ req[r].pred # 1
                    /\ req[r].result.probability = 100000
                    /\ req[r].result.machine_status = "Normal"

\* a label-only response for a predicted label that is neither 0 nor 1
LabelOnlyFallbackWitness ==
    \E r \in Requests :
        /\ model.tag = "model" /\ ~model.predict_proba
        /\ req[r].result.kind = "ok" /\ req[r].pred = 2
        /\ req[r].result.probability = 100000

\* C7: with a model that has predict_proba, the failure probability is the
\* row's entry at the first position of label 1 in classes_ when classes_
\* exists and contains 1, and the largest entry of the row otherwise; predict
\* is never called.
ProbaDispatch ==
    \A r \in Requests :
        (model.tag = "model" /\ model.predict_proba) =>
            /\ ~Has(req[r].log, "predict")
            /\ req[r].pred = -1
            /\ req[r].proba # << >> =>
                 LET row == req[r].proba
                     p == req[r].prob_failure
                     cl == model.classes_
                 IN IF model.has_classes_ /\ \E i \in 1..Len(cl) : cl[i] = 1
                    THEN \E i \in 1..Len(cl) :
                            /\ cl[i] = 1
                            /\ \A j \in 1..(i - 1) : cl[j] # 1
                            /\ i <= Len(row)
                            /\ p = row[i]
                    ELSE /\ \E j \in 1..Len(row) : row[j] = p
                         /\ \A j \in 1..Len(row) : row[j] <= p

\* the probability of label 1 was taken although it is not the largest
ProbaDispatchWitness ==
    \E r \in Requests :
        /\ model.tag = "model" /\ model.predict_proba /\ model.has_classes_
        /\ model.classes_ = <<1, 0>>
        /\ Len(req[r].proba) = 2
        /\ req[r].prob_failure = req[r].proba[1]
        /\ req[r].proba[1] < req[r].proba[2]

\* C8: once the load has completed, no step changes the model or the feature
\* schema or runs the load again (so readiness never changes).
ArtifactsFrozen ==
    [][loaded => (loaded' /\ model' = model /\ FEATURE_COLS' = FEATURE_COLS)]_vars

\* a request was rejected after a load that left the model absent, and
\* another request is being served
ArtifactsFrozenWitness ==
    \E r, t \in Requests :
        /\ r # t /\ loaded /\ model = None
        /\ req[r].pc = "done" /\ req[r].result.detail = "ArtifactUnready"
        /\ req[t].pc = "check"

\* C9 as stated: a feature vector is produced only when the mapping's key
\* set equals the schema's name set.
ExactKeySet ==
    \A r \in Requests :
        req[r].df.tag = "df" => SchemaNames = MappingKeys

\* C9 as amended: a request that has run feature assembly has a feature
\* vector iff every schema name is a key of the mapping; mapping keys the
\* schema does not list are left out of the vector; without a vector the
\* request ends with FeatureMismatch and the model is not called.
SchemaCoverage ==
    \A r \in Requests :
        Has(req[r].log, "assemble") =>
            /\ (req[r].df.tag = "df") <=> (SchemaNames \subseteq MappingKeys)
            /\ req[r].df.tag = "df" => Len(req[r].df.row) = Len(FEATURE_COLS.items)
            /\ req[r].df.tag # "df" =>
                   /\ req[r].pc = "done"
                   /\ req[r].result.detail = "FeatureMismatch"
                   /\ req[r].log = <<"check", "assemble">>

\* a vector assembled although the mapping has keys the schema does not list
SchemaCoverageWitness ==
    \E r \in Requests :
        /\ req[r].df.tag = "df"
        /\ SchemaNames # MappingKeys /\ SchemaNames \subseteq MappingKeys
        /\ Len(req[r].df.row) = 2

\* C10 as stated: the status of a successful response is the status the
\* threshold table gives the returned (rounded) probability.
StatusAgreesWithReturned ==
    \A r \in Requests :
        req[r].result.kind = "ok" =>
            req[r].result.machine_status = ThresholdTable(req[r].result.probability)

\* C10 as amended: the status of a successful response is the status the
\* table gives the raw probability; it is the status the table gives the
\* returned probability unless that is exactly 0.3 (then Normal or Warning)
\* or exactly 0.7 (then Warning or Failure).
StatusAgreesWithRaw ==
    \A r \in Requests :
        req[r].result.kind = "ok" =>
            LET st == req[r].result.machine_status
                q == req[r].result.probability
            IN /\ st = ThresholdTable(req[r].prob_failure)
               /\ q \notin {300000, 700000} => st = ThresholdTable(q)
               /\ q = 300000 => st \in {"Normal", "Warning"}
               /\ q = 700000 => st \in {"Warning", "Failure"}
               /\ q % 100 = 0
               /\ q - req[r].prob_failure \in -50..50

\* a raw 0.29996 answered as probability 0.3 with status Normal
StatusAgreesWithRawWitness ==
    \E r \in Requests :
        /\ req[r].result.kind = "ok"
        /\ req[r].prob_failure = 299960
        /\ req[r].result.probability = 300000
        /\ req[r].result.machine_status = "Normal"

====
